---- MODULE Spec2Model ----
(***************************************************************************)
(* Model of the ticket-app backend (server/python-sqlalchemy).             *)
(*                                                                         *)
(* The store is the two tables of models.py (users, tickets).  Every HTTP  *)
(* request runs in a request slot: get_db opens a session, the path        *)
(* operation runs (one step per database round trip), and get_db's finally *)
(* block closes the session.  Two slots run concurrently, so the query and *)
(* the commit of create_user / delete_user_* can interleave with the steps *)
(* of another request.                                                     *)
(*                                                                         *)
(* Ticket columns that are only stored and returned (fault_description,    *)
(* location, priority, type, due_date, notes, date_resolved) behave like   *)
(* title and are represented by it.                                        *)
(*                                                                         *)
(* The store compares a key with a column by value: the user_id path       *)
(* parameters (declared str) and the user reference columns (declared      *)
(* String, written from int fields) are integers here.  Foreign keys are   *)
(* declared but not enforced, and a generated users.id is any id that no   *)
(* stored row uses at the time of the insert.                              *)
(***************************************************************************)
EXTENDS Integers, Sequences, FiniteSets, TLC

\* ---- bounds of the model ------------------------------------------------
MaxUserId == 2
MaxTickets == 1

\* ---- program constants --------------------------------------------------
DefaultLimit == 10
DefaultOffset == 0

\* ---- input domains ------------------------------------------------------
Reqs == {"r1", "r2"}
Emails == {"a@x", "b@x"}
FullNames == {"n"}
Passwords == {"p"}
LoginPasswords == {"p", "q"}
UserIds == 1 .. MaxUserId
Titles == {"t"}
Statuses == {"open"}
StatusParams == {"", "open"}
RefIds == {0, 1}
TicketIds == 1 .. (MaxTickets + 1)
Limits == {0, 1, DefaultLimit}
Offsets == {DefaultOffset, 1}
FieldNames == {"created_by", "assigned_to", "assigned_by", "status", "id"}

\* Optional[T]: None is the empty tuple, a supplied value v is <<v>>.
None == <<>>
Some(v) == <<v>>
OptOf(S) == {None} \cup {Some(v) : v \in S}

\* users, tickets : the rows of the two tables (tickets in storage order)
\* pc, op, arg     : per slot, the position in the request, the path operation
\*                   it runs and the payload / locals it carries between steps
\* resp            : per slot, the outcome of the path operation
\* session         : per slot, the state of the session get_db opened
\* queries         : per slot, the database round trips of the current request
\* created         : per user id, the body POST /users answered for the stored
\*                   User with that id (history of the responses)
VARIABLES users, tickets, pc, op, arg, resp, session, queries, created

vars == <<users, tickets, pc, op, arg, resp, session, queries, created>>

\* ---- schemas.py ---------------------------------------------------------
UserCreate == [email : Emails, full_name : FullNames, password : Passwords]

UserLogin == [email : Emails, password : LoginPasswords]

TicketCreate == [title : Titles, status : Statuses, created_by : RefIds,
                 assigned_to : {1}, assigned_by : {1}]

\* The fields a PUT payload may carry; a payload is a function from the
\* fields it names to their values (exclude_unset keeps exactly those).
TicketUpdate == {<<>>} \cup [{"status"} -> Statuses] \cup [{"created_by"} -> RefIds]

\* response_model=UserOut: email, full_name, password (no id).
UserOut(u) == [email |-> u.email, full_name |-> u.full_name, password |-> u.password]

\* response_model=TicketOut: the TicketCreate fields, id and date_created.
TicketOut(t) == [id |-> t.id, title |-> t.title, status |-> t.status,
                 created_by |-> t.created_by, assigned_to |-> t.assigned_to,
                 assigned_by |-> t.assigned_by, date_created |-> t.date_created]

\* ---- models.py ----------------------------------------------------------
User(id, email, full_name, password) ==
    [id |-> id, email |-> email, full_name |-> full_name, password |-> password]

Ticket(id, t) ==
    [id |-> id, title |-> t.title, status |-> t.status, created_by |-> t.created_by,
     assigned_to |-> t.assigned_to, assigned_by |-> t.assigned_by,
     date_created |-> "utcnow", date_updated |-> "None"]

\* users.id is a generated primary key: any id no stored row uses.
FreeUserIds(us) == {i \in UserIds : \A u \in us : u.id # i}

UniqueEmail_NoConstraint(us, email) == TRUE

\* users.email is declared unique=True: the INSERT is accepted only if no
\* stored row has the email.
UniqueEmail(us, email) == \A u \in us : u.email # email

\* ---- outcomes of a path operation ----------------------------------------
Ok(body) == [kind |-> "return", status |-> 200, body |-> body]

HTTPException(status_code, detail) ==
    [kind |-> "http_error", status |-> status_code, body |-> [detail |-> detail]]

Fault(exc) == [kind |-> "fault", status |-> 500, body |-> [detail |-> exc]]

NoResp == [kind |-> "none", status |-> 0, body |-> None]

\* ---- Query.first() -------------------------------------------------------
\* The first row of a query result, None when it is empty.
first(rows) ==
    IF rows = {} THEN None
    ELSE Some(CHOOSE u \in rows : \A v \in rows : u.id <= v.id)

Init ==
    /\ users = {}
    /\ tickets = <<>>
    /\ pc = [r \in Reqs |-> "idle"]
    /\ op = [r \in Reqs |-> "none"]
    /\ arg = [r \in Reqs |-> None]
    /\ resp = [r \in Reqs |-> NoResp]
    /\ session = [r \in Reqs |-> "none"]
    /\ queries = [r \in Reqs |-> 0]
    /\ created = [i \in UserIds |-> None]

\* ---- get_db ---------------------------------------------------------------
\* db = SessionLocal(); yield db
get_db_enter(r) ==
    /\ pc[r] = "idle"
    /\ pc' = [pc EXCEPT ![r] = "open"]
    /\ session' = [session EXCEPT ![r] = "open"]
    /\ resp' = [resp EXCEPT ![r] = NoResp]
    /\ UNCHANGED <<users, tickets, op, arg, queries, created>>

close_NoFinally(kind) == IF kind = "return" THEN "closed" ELSE "open"

\* finally: db.close() -- runs however the path operation ended.
close(kind) == "closed"

get_db_exit(r) ==
    /\ pc[r] = "finally"
    /\ pc' = [pc EXCEPT ![r] = "idle"]
    /\ session' = [session EXCEPT ![r] = close(resp[r].kind)]
    /\ resp' = [resp EXCEPT ![r] = [kind |-> @.kind, status |-> 0, body |-> None]]
    /\ arg' = [arg EXCEPT ![r] = None]
    /\ op' = [op EXCEPT ![r] = "none"]
    /\ queries' = [queries EXCEPT ![r] = 0]
    /\ UNCHANGED <<users, tickets, created>>

\* The path operation of slot r ends with outcome rsp after n more queries.
Finish(r, name, a, rsp, n) ==
    /\ pc' = [pc EXCEPT ![r] = "finally"]
    /\ op' = [op EXCEPT ![r] = name]
    /\ arg' = [arg EXCEPT ![r] = a]
    /\ resp' = [resp EXCEPT ![r] = rsp]
    /\ queries' = [queries EXCEPT ![r] = @ + n]
    /\ UNCHANGED session

\* The path operation of slot r goes on to a further step at label.
Goto(r, label, name, a, n) ==
    /\ pc' = [pc EXCEPT ![r] = label]
    /\ op' = [op EXCEPT ![r] = name]
    /\ arg' = [arg EXCEPT ![r] = a]
    /\ queries' = [queries EXCEPT ![r] = @ + n]
    /\ UNCHANGED <<resp, session>>

\* ---- POST /users ----------------------------------------------------------
existing_Missed(us, email) == None

\* db.query(User).filter(User.email == user.email).first()
existing(us, email) == first({u \in us : u.email = email})

\* crud.create_user up to the raise / db.add
create_user_query(r) ==
    /\ pc[r] = "open"
    /\ \E user \in UserCreate :
          IF existing(users, user.email) # None
          THEN Finish(r, "create_user", user,
                      HTTPException(400, "Email already registered"), 1)
          ELSE Goto(r, "create_user_commit", "create_user", user, 1)
    /\ UNCHANGED <<users, tickets, created>>

\* db.add(db_user); db.commit(); db.refresh(db_user); return db_user
create_user_commit(r) ==
    /\ pc[r] = "create_user_commit"
    /\ LET user == arg[r] IN
          IF UniqueEmail(users, user.email)
          THEN \E id \in FreeUserIds(users) :
                  LET db_user == User(id, user.email, user.full_name, user.password) IN
                  /\ users' = users \cup {db_user}
                  /\ created' = [created EXCEPT ![id] = Some(UserOut(db_user))]
                  /\ Finish(r, "create_user", user, Ok(UserOut(db_user)), 2)
          ELSE /\ Finish(r, "create_user", user, Fault("IntegrityError"), 1)
               /\ UNCHANGED <<users, created>>
    /\ UNCHANGED tickets

\* ---- GET /users -----------------------------------------------------------
\* crud.get_users: db.query(User).all(); no response_model, rows as stored.
get_users(r) ==
    /\ pc[r] = "open"
    /\ Finish(r, "get_users", None, Ok(users), 1)
    /\ UNCHANGED <<users, tickets, created>>

\* ---- GET /users/id/{user_id}, GET /users/email/{user_email} ----------------
get_user_by_id_Any(us, user_id) ==
    LET user == first(us) IN
    IF user = None THEN HTTPException(404, "User not found") ELSE Ok(user[1])

\* crud.get_user_by_id and its path operation: the row, or 404.
get_user_by_id(us, user_id) ==
    LET user == first({u \in us : u.id = user_id}) IN
    IF user = None THEN HTTPException(404, "User not found") ELSE Ok(user[1])

\* crud.get_user_by_email and its path operation: the row, or 404.
get_user_by_email(us, user_email) ==
    LET user == first({u \in us : u.email = user_email}) IN
    IF user = None THEN HTTPException(404, "User not found") ELSE Ok(user[1])

get_user_by_id_op(r) ==
    /\ pc[r] = "open"
    /\ \E user_id \in UserIds :
          Finish(r, "get_user_by_id", None, get_user_by_id(users, user_id), 1)
    /\ UNCHANGED <<users, tickets, created>>

get_user_by_email_op(r) ==
    /\ pc[r] = "open"
    /\ \E user_email \in Emails :
          Finish(r, "get_user_by_email", None,
                 get_user_by_email(users, user_email), 1)
    /\ UNCHANGED <<users, tickets, created>>

\* ---- DELETE /users/id/{user_id}, DELETE /users/email/{user_email} ----------
db_delete_Cascade(us, ts, user) ==
    [users |-> {u \in us : u.id # user.id},
     tickets |-> SelectSeq(ts, LAMBDA t : t.created_by # user.id)]

\* db.delete(user); db.commit(): deletes the row with user's primary key.
\* Ticket declares no cascade, so the tickets table is not touched.
db_delete(us, ts, user) ==
    [users |-> {u \in us : u.id # user.id}, tickets |-> ts]

\* crud.delete_user_by_id up to `if not user: return None`
delete_user_by_id_query(r) ==
    /\ pc[r] = "open"
    /\ \E user_id \in UserIds :
          LET user == first({u \in users : u.id = user_id}) IN
          IF user = None
          THEN Finish(r, "delete_user_by_id", [key |-> Some(user_id), user |-> None],
                      HTTPException(404, "User not found"), 1)
          ELSE Goto(r, "delete_user_commit", "delete_user_by_id",
                    [key |-> Some(user_id), user |-> user], 1)
    /\ UNCHANGED <<users, tickets, created>>

\* crud.delete_user_by_email up to `if not user: return None`
delete_user_by_email_query(r) ==
    /\ pc[r] = "open"
    /\ \E user_email \in Emails :
          LET user == first({u \in users : u.email = user_email}) IN
          IF user = None
          THEN Finish(r, "delete_user_by_email", [key |-> Some(user_email), user |-> None],
                      HTTPException(404, "User not found"), 1)
          ELSE Goto(r, "delete_user_commit", "delete_user_by_email",
                    [key |-> Some(user_email), user |-> user], 1)
    /\ UNCHANGED <<users, tickets, created>>

\* db.delete(user); db.commit(); return user -> {"detail": "User deleted"}
delete_user_commit(r) ==
    /\ pc[r] = "delete_user_commit"
    /\ LET user == arg[r].user[1]
           after == db_delete(users, tickets, user) IN
          /\ users' = after.users
          /\ tickets' = after.tickets
          /\ created' = [created EXCEPT ![user.id] = None]
          /\ Finish(r, op[r], arg[r], Ok([detail |-> "User deleted"]), 1)

\* ---- POST /login -----------------------------------------------------------
authenticate_user_NoPassword(us, email, password) ==
    first({u \in us : u.email = email})

\* crud.authenticate_user: the user with the email, if the password is equal.
authenticate_user(us, email, password) ==
    LET user == first({u \in us : u.email = email}) IN
    IF user = None \/ user[1].password # password THEN None ELSE user

login(us, user) ==
    LET auth_user == authenticate_user(us, user.email, user.password) IN
    IF auth_user = None
    THEN HTTPException(401, "Invalid credentials")
    ELSE Ok([message |-> "Login successful", user_id |-> auth_user[1].id])

login_op(r) ==
    /\ pc[r] = "open"
    /\ \E user \in UserLogin : Finish(r, "login", None, login(users, user), 1)
    /\ UNCHANGED <<users, tickets, created>>

\* ---- POST /tickets ---------------------------------------------------------
\* crud.create_ticket: Ticket(**ticket.dict(), date_created=now); add; commit.
create_ticket(r) ==
    /\ pc[r] = "open"
    /\ Len(tickets) < MaxTickets
    /\ \E ticket \in TicketCreate :
          LET new_ticket == Ticket(Len(tickets) + 1, ticket) IN
          /\ tickets' = Append(tickets, new_ticket)
          /\ Finish(r, "create_ticket", None, Ok(TicketOut(new_ticket)), 2)
    /\ UNCHANGED <<users, created>>

\* ---- GET /tickets/{ticket_id} ----------------------------------------------
\* crud.get_ticket_by_id and its path operation: the ticket, or 404.
get_ticket(ts, ticket_id) ==
    LET found == SelectSeq(ts, LAMBDA t : t.id = ticket_id) IN
    IF found = <<>> THEN HTTPException(404, "Ticket not found")
    ELSE Ok(TicketOut(found[1]))

get_ticket_op(r) ==
    /\ pc[r] = "open"
    /\ \E ticket_id \in TicketIds :
          Finish(r, "get_ticket", None, get_ticket(tickets, ticket_id), 1)
    /\ UNCHANGED <<users, tickets, created>>

\* ---- GET /tickets -----------------------------------------------------------
\* Python truth value of an Optional[str] / Optional[int] query parameter.
TruthyStr(o) == o # None /\ o[1] # ""

TruthyInt(o) == o # None /\ o[1] # 0

\* response_model=List[TicketOut]
TicketOutList(rows) == [i \in 1 .. Len(rows) |-> TicketOut(rows[i])]

Min(a, b) == IF a <= b THEN a ELSE b

\* query.offset(offset).limit(limit).all()
Page(rows, limit, offset) == SubSeq(rows, offset + 1, Min(offset + limit, Len(rows)))

\* main.get_tickets: each `if <param>:` adds an equality filter.
get_tickets(ts, status, created_by, assigned_to, assigned_by, limit, offset) ==
    LET q1 == IF TruthyStr(status)
              THEN SelectSeq(ts, LAMBDA t : t.status = status[1]) ELSE ts
        q2 == IF TruthyInt(created_by)
              THEN SelectSeq(q1, LAMBDA t : t.created_by = created_by[1]) ELSE q1
        q3 == IF TruthyInt(assigned_to)
              THEN SelectSeq(q2, LAMBDA t : t.assigned_to = assigned_to[1]) ELSE q2
        q4 == IF TruthyInt(assigned_by)
              THEN SelectSeq(q3, LAMBDA t : t.assigned_by = assigned_by[1]) ELSE q3
    IN Ok(TicketOutList(Page(q4, limit, offset)))

get_tickets_op(r) ==
    /\ pc[r] = "open"
    /\ \E status \in OptOf(StatusParams), created_by \in OptOf(RefIds),
          assigned_to \in OptOf({1}), assigned_by \in OptOf({1}),
          limit \in Limits, offset \in Offsets :
          Finish(r, "get_tickets", None,
                 get_tickets(tickets, status, created_by, assigned_to, assigned_by,
                             limit, offset), 1)
    /\ UNCHANGED <<users, tickets, created>>

\* ---- GET /tickets/user/{field}/{user_id} -----------------------------------
AllowedFields == {"created_by", "assigned_to", "assigned_by"}

get_tickets_by_user_field_Creator(ts, field, user_id) ==
    SelectSeq(ts, LAMBDA t : t.created_by = user_id)

\* crud.get_tickets_by_user_field: filter(getattr(Ticket, field) == user_id)
get_tickets_by_user_field(ts, field, user_id) ==
    SelectSeq(ts, LAMBDA t : t[field] = user_id)

\* main.get_tickets_by_user: the outcome and the number of queries issued.
get_tickets_by_user(ts, field, user_id) ==
    IF field \notin AllowedFields
    THEN [rsp |-> HTTPException(400, "Invalid field"), queries |-> 0]
    ELSE [rsp |-> Ok(get_tickets_by_user_field(ts, field, user_id)), queries |-> 1]

get_tickets_by_user_op(r) ==
    /\ pc[r] = "open"
    /\ \E field \in FieldNames, user_id \in RefIds :
          LET out == get_tickets_by_user(tickets, field, user_id) IN
          Finish(r, "get_tickets_by_user", None, out.rsp, out.queries)
    /\ UNCHANGED <<users, tickets, created>>

\* ---- PUT /tickets/{ticket_id} ----------------------------------------------
\* crud.update_ticket: line 94 reads the local `ticket` while evaluating the
\* filter of the very query that is to assign it: UnboundLocalError, raised
\* before any statement reaches the database.  Nothing below it runs.
update_ticket(ts, ticket_id, updates) ==
    [tickets |-> ts, rsp |-> Fault("UnboundLocalError"), queries |-> 0]

update_ticket_op(r) ==
    /\ pc[r] = "open"
    /\ \E ticket_id \in TicketIds, updates \in TicketUpdate :
          LET out == update_ticket(tickets, ticket_id, updates) IN
          /\ tickets' = out.tickets
          /\ Finish(r, "update_ticket", None, out.rsp, out.queries)
    /\ UNCHANGED <<users, created>>

\* One step of the request in slot r.
Handler(r) ==
    \/ get_db_enter(r)
    \/ get_db_exit(r)
    \/ create_user_query(r)
    \/ create_user_commit(r)
    \/ get_users(r)
    \/ get_user_by_id_op(r)
    \/ get_user_by_email_op(r)
    \/ delete_user_by_id_query(r)
    \/ delete_user_by_email_query(r)
    \/ delete_user_commit(r)
    \/ login_op(r)
    \/ create_ticket(r)
    \/ get_ticket_op(r)
    \/ get_tickets_op(r)
    \/ get_tickets_by_user_op(r)
    \/ update_ticket_op(r)

Next == \E r \in Reqs : Handler(r)

Spec == Init /\ [][Next]_vars

\* A server with a single worker: every request is taken by the same slot.
Worker == CHOOSE r \in Reqs : TRUE

WorkerNext == Handler(Worker)

\* A request that has entered runs to its end: the worker thread that took it
\* executes the path operation and then the rest of get_db.  The arrival of
\* requests is not forced.
Running == pc[Worker] # "idle" /\ WorkerNext

WorkerSpec == Init /\ [][WorkerNext]_vars /\ WF_vars(Running)

\* ==== properties ===========================================================

\* Slot r has just run the first step of the path operation `name`.
Ran(r, name) == pc[r] = "open" /\ pc'[r] # "open" /\ op'[r] = name

Done(r, name) == pc[r] = "finally" /\ op[r] = name

\* C1: a Create whose existence check runs while a stored User holds the
\* email ends with 400 "Email already registered" and writes nothing: users
\* and tickets are as before.
C1_DuplicateEmailRejected ==
    [][\A r \in Reqs :
          (Ran(r, "create_user") /\ \E u \in users : u.email = arg'[r].email)
          => /\ pc'[r] = "finally"
             /\ resp'[r] = [kind |-> "http_error", status |-> 400,
                            body |-> [detail |-> "Email already registered"]]
             /\ users' = users
             /\ tickets' = tickets]_vars

C1_Witness ==
    \E r \in Reqs :
        /\ Done(r, "create_user")
        /\ resp[r].status = 400
        /\ \E u \in users : u.email = arg[r].email

\* C2: no two stored Users have the same email, in every reachable state,
\* also when the check and the insert of two Creates interleave.
C2_EmailUnique ==
    \A u1 \in users, u2 \in users : u1.email = u2.email => u1 = u2

\* Two Creates for one email both passed the check; the second insert failed.
C2_Witness ==
    \E r \in Reqs :
        /\ Done(r, "create_user")
        /\ resp[r].kind = "fault"
        /\ \E u \in users : u.email = arg[r].email

\* C6: login answers 200 with the id of the stored User that has the email
\* and exactly the password, and otherwise 401 "Invalid credentials",
\* the same for an unknown email and a wrong password; a login step changes
\* neither users nor tickets.
C6_Authenticate ==
    /\ [](\A user \in UserLogin :
            LET match == {u \in users : u.email = user.email /\ u.password = user.password}
                rsp == login(users, user)
            IN IF match # {}
               THEN /\ rsp.status = 200
                    /\ \E u \in match : rsp.body.user_id = u.id
               ELSE rsp = [kind |-> "http_error", status |-> 401,
                           body |-> [detail |-> "Invalid credentials"]])
    /\ [][\A r \in Reqs :
            Ran(r, "login") => users' = users /\ tickets' = tickets]_vars

\* One login succeeded and one failed while the email is registered.
C6_Witness ==
    \E r1 \in Reqs, r2 \in Reqs :
        /\ Done(r1, "login") /\ resp[r1].status = 200
        /\ Done(r2, "login") /\ resp[r2].status = 401
        /\ users # {}

DeleteOps == {"delete_user_by_id", "delete_user_by_email"}

Matches(name, key, u) ==
    IF name = "delete_user_by_id" THEN u.id = key[1] ELSE u.email = key[1]

\* C8: a delete whose lookup matches no stored User ends with 404 and changes
\* nothing; a delete whose lookup matches goes on with that User, and its
\* commit removes the row with that User's id, keeps every other User and
\* keeps every Ticket, also the Tickets that reference the deleted User.
C8_DeleteFrame ==
    [][\A r \in Reqs :
          /\ \A name \in DeleteOps :
                Ran(r, name) =>
                   LET key == arg'[r].key
                       hit == {u \in users : Matches(name, key, u)}
                   IN /\ users' = users /\ tickets' = tickets
                      /\ IF hit = {}
                         THEN /\ pc'[r] = "finally"
                              /\ resp'[r] = [kind |-> "http_error", status |-> 404,
                                             body |-> [detail |-> "User not found"]]
                         ELSE /\ pc'[r] = "delete_user_commit"
                              /\ arg'[r].user # None
                              /\ arg'[r].user[1] \in hit
          /\ (pc[r] = "delete_user_commit" /\ pc'[r] = "finally") =>
                /\ users' = {u \in users : u.id # arg[r].user[1].id}
                /\ tickets' = tickets
                /\ resp'[r].status = 200]_vars

\* A User was deleted while a Ticket references it and another User is stored.
C8_Witness ==
    \E r \in Reqs :
        /\ pc[r] = "finally" /\ op[r] \in DeleteOps /\ resp[r].status = 200
        /\ \E t \in 1 .. Len(tickets) : tickets[t].created_by = arg[r].user[1].id
        /\ users # {}
        /\ arg[r].user[1] \notin users

\* C9: a field outside {created_by, assigned_to, assigned_by} is answered with
\* 400 "Invalid field" without a query; a field inside the set is answered
\* with exactly the Tickets whose value of that field equals user_id.
C9_ListByUserField ==
    /\ [](\A field \in FieldNames, user_id \in RefIds :
            LET out == get_tickets_by_user(tickets, field, user_id) IN
            IF field \in {"created_by", "assigned_to", "assigned_by"}
            THEN /\ out.rsp.status = 200
                 /\ out.rsp.body = SelectSeq(tickets, LAMBDA t :
                       CASE field = "created_by" -> t.created_by = user_id
                         [] field = "assigned_to" -> t.assigned_to = user_id
                         [] field = "assigned_by" -> t.assigned_by = user_id)
            ELSE /\ out.rsp = [kind |-> "http_error", status |-> 400,
                               body |-> [detail |-> "Invalid field"]]
                 /\ out.queries = 0)
    /\ [][\A r \in Reqs :
            (Ran(r, "get_tickets_by_user") /\ resp'[r].status = 400)
               => queries'[r] = 0 /\ users' = users /\ tickets' = tickets]_vars

\* One request was rejected for its field and one got the stored tickets.
C9_Witness ==
    \E r1 \in Reqs, r2 \in Reqs :
        /\ Done(r1, "get_tickets_by_user") /\ resp[r1].status = 400 /\ queries[r1] = 0
        /\ Done(r2, "get_tickets_by_user") /\ resp[r2].status = 200
        /\ resp[r2].body = tickets
        /\ tickets # <<>>

\* C10: the session a request opened is closed when the request has ended,
\* whatever the outcome of its path operation (return, HTTP error, fault),
\* and every open session is eventually closed.
C10_SessionReleased ==
    /\ [](\A r \in Reqs : pc[r] = "idle" => session[r] # "open")
    /\ \A r \in Reqs : (session[r] = "open") ~> (session[r] = "closed")

\* A request that ended with an unhandled fault has its session closed.
C10_Witness ==
    \E r \in Reqs :
        pc[r] = "idle" /\ resp[r].kind = "fault" /\ session[r] = "closed"

\* The ticket t after a partial update: the fields the payload names take its
\* values, date_updated is stamped, every other field keeps its value.
Updated(t, updates) ==
    [f \in DOMAIN t |->
        IF f \in DOMAIN updates THEN updates[f]
        ELSE IF f = "date_updated" THEN "utcnow" ELSE t[f]]

Exists(ticket_id) == \E i \in 1 .. Len(tickets) : tickets[i].id = ticket_id

\* C3: Update on an existing Ticket sets exactly the fields present in the
\* payload, stamps date_updated (also for an empty payload), and leaves the
\* omitted fields and every other Ticket as they were.
C3_PartialUpdate ==
    (\E r \in Reqs : Done(r, "update_ticket")) =>
        \A ticket_id \in TicketIds, updates \in TicketUpdate :
            Exists(ticket_id) =>
                update_ticket(tickets, ticket_id, updates).tickets =
                    [i \in 1 .. Len(tickets) |->
                        IF tickets[i].id = ticket_id
                        THEN Updated(tickets[i], updates) ELSE tickets[i]]

\* C4: Update answers 404 and changes no Ticket when no Ticket has the id;
\* when a Ticket has the id the request does not fail.
C4_UpdateNotFound ==
    (\E r \in Reqs : Done(r, "update_ticket")) =>
        \A ticket_id \in TicketIds, updates \in TicketUpdate :
            LET out == update_ticket(tickets, ticket_id, updates) IN
            IF Exists(ticket_id)
            THEN out.rsp.kind = "return"
            ELSE /\ out.rsp.kind = "http_error" /\ out.rsp.status = 404
                 /\ out.tickets = tickets

\* C5: while a created User is stored, GetById and GetByEmail return a record
\* equal to the one Create returned for it; for an id or email no stored User
\* has (never created, or deleted) both answer 404.
C5_GetEqualsCreated ==
    /\ \A u \in users :
          created[u.id] # None =>
             /\ get_user_by_id(users, u.id).status = 200
             /\ get_user_by_id(users, u.id).body = created[u.id][1]
             /\ get_user_by_email(users, u.email).status = 200
             /\ get_user_by_email(users, u.email).body = created[u.id][1]
    /\ \A id \in UserIds :
          (\A u \in users : u.id # id) => get_user_by_id(users, id).status = 404
    /\ \A email \in Emails :
          (\A u \in users : u.email # email) => get_user_by_email(users, email).status = 404

\* The Tickets that match every supplied filter, in storage order.
AllMatch(status, created_by, assigned_to, assigned_by) ==
    SelectSeq(tickets, LAMBDA t :
        /\ status # None => t.status = status[1]
        /\ created_by # None => t.created_by = created_by[1]
        /\ assigned_to # None => t.assigned_to = assigned_to[1]
        /\ assigned_by # None => t.assigned_by = assigned_by[1])

\* C7: ListFiltered returns the Tickets matching all supplied filters (a filter
\* supplied as 0 or "" is a supplied filter) at positions offset+1 ..
\* offset+limit of the matches in storage order.
C7_ListFiltered ==
    (\E r \in Reqs : Done(r, "get_tickets")) =>
        \A status \in OptOf(StatusParams), created_by \in OptOf(RefIds),
           assigned_to \in OptOf({1}), assigned_by \in OptOf({1}),
           limit \in Limits, offset \in Offsets :
            LET rsp == get_tickets(tickets, status, created_by, assigned_to,
                                   assigned_by, limit, offset)
                want == AllMatch(status, created_by, assigned_to, assigned_by)
            IN /\ rsp.status = 200
               /\ Len(rsp.body) <= limit
               /\ rsp.body = [i \in 1 .. Len(Page(want, limit, offset)) |->
                                 TicketOut(Page(want, limit, offset)[i])]
====
